---- MODULE Spec2Model ----
(***************************************************************************)
(* Model of the score-for-cancer tracker endpoints: six handler variants   *)
(* (four plain-fetch ones with a module-level cache, two rendered ones     *)
(* driving a headless browser), each with its own extraction heuristic.    *)
(*                                                                         *)
(* A page is a head holding the numbers of its inline JSON script blocks   *)
(* and a body of leaf elements ("blocks"), each a run of whitespace        *)
(* separated tokens: dollar amounts ("$186,576"), bare numbers ("5,000"),  *)
(* and the words RAISED, raised and GOAL.  An amount is written as its     *)
(* comma groups and its cents (".40"; 0 when it has none), and every       *)
(* number the program computes is kept in hundredths of a dollar, so that  *)
(* Math.round and the cents a capture group leaves out are visible.        *)
(* Tokens are separated by whitespace, also across element boundaries.     *)
(* Pages are far shorter than the regex windows of the source (120, 220    *)
(* and 80 characters), so a window never cuts a match here.                *)
(***************************************************************************)
EXTENDS Integers, Sequences, FiniteSets, TLC

\* ------------------------------------------------------------------ bounds
MaxPhrases == 2
MaxServedPhrases == 1

\* ---------------------------------------------------------- program constants
GOAL == 250000
MinPlausible == 1000

\* ------------------------------------------------------------------ helpers
Max(S) == CHOOSE x \in S : \A y \in S : y <= x
Min(S) == CHOOSE x \in S : \A y \in S : x <= y

\* a whole-dollar number, in hundredths
Dollars(n) == n * 100

Null == [kind |-> "null"]
Pending == [kind |-> "pending"]

\* ------------------------------------------------------------- page content
Amt(d, g, c) == [k |-> "amt", dollar |-> d, groups |-> g, cents |-> c]
Word(w) == [k |-> w]

DollarGroups == {<<0>>, <<999>>, <<125, 0>>, <<186, 576>>, <<250, 0>>, <<260, 0>>}
BareGroups == {<<5, 0>>}
AmtTokens ==
  {Amt(TRUE, g, 0) : g \in DollarGroups} \cup {Amt(TRUE, <<250, 0>>, 40)}
    \cup {Amt(FALSE, g, 0) : g \in BareGroups}
WordTokens == {Word("RAISED"), Word("raised"), Word("GOAL")}
TAG == Word("tag")

\* A phrase is an amount, a word, or an amount with a word after or before it.
Phrases ==
  {<<a>> : a \in AmtTokens} \cup {<<w>> : w \in WordTokens}
    \cup {<<a, w>> : a \in AmtTokens, w \in WordTokens}
    \cup {<<w, a>> : w \in WordTokens, a \in AmtTokens}

\* 50, 999.60 and 5000
JsonNumbers == {Dollars(50), 99960, Dollars(5000)}

RECURSIVE SeqsUpTo(_, _)
SeqsUpTo(S, n) ==
  IF n = 0 THEN {<<>>}
  ELSE LET shorter == SeqsUpTo(S, n - 1)
       IN shorter \cup {Append(s, x) : s \in {t \in shorter : Len(t) = n - 1}, x \in S}

RECURSIVE SplitBlocks(_, _, _, _)
SplitBlocks(s, brk, i, cur) ==
  IF i > Len(s) THEN (IF cur = <<>> THEN <<>> ELSE <<cur>>)
  ELSE LET cur2 == cur \o s[i]
       IN IF i \in brk THEN <<cur2>> \o SplitBlocks(s, brk, i + 1, <<>>)
          ELSE SplitBlocks(s, brk, i + 1, cur2)

\* the page made of the phrases s, split into leaf elements after the phrases
\* brk, with the JSON numbers j in its inline scripts
PageOf(s, brk, j) == [head |-> j, blocks |-> SplitBlocks(s, brk, 1, <<>>)]

\* extraction is checked on the pages of up to MaxPhrases phrases; the upstream
\* serves the pages of up to MaxServedPhrases phrases to a handler run

RECURSIVE Flatten(_, _)
Flatten(blocks, sep) ==
  IF blocks = <<>> THEN <<>>
  ELSE IF Len(blocks) = 1 THEN blocks[1]
  ELSE blocks[1] \o sep \o Flatten(Tail(blocks), sep)

\* The raw markup: adjacent leaves are separated by their tags.
HtmlText(pg) == Flatten(pg.blocks, <<TAG>>)
\* $("body").text() with whitespace collapsed, and the rendered innerText.
BodyText(pg) == Flatten(pg.blocks, <<>>)

IsAmt(t) == t.k = "amt"
IsDollarAmt(t) == t.k = "amt" /\ t.dollar
IsRaised(t, ci) == t.k = "RAISED" \/ (ci /\ t.k = "raised")
IsGoal(t) == t.k = "GOAL"

\* ------------------------------------------------------- parseMoneyToNumber
RECURSIVE DigitsValue(_)
DigitsValue(g) ==
  IF g = <<>> THEN 0 ELSE DigitsValue(SubSeq(g, 1, Len(g) - 1)) * 1000 + g[Len(g)]

\* reads the digits up to the first comma only
parseMoneyToNumber_firstGroup(t) == Dollars(t.groups[1])

\* Strips everything but the digits and the "." and reads the number.
parseMoneyToNumber(t) == Dollars(DigitsValue(t.groups)) + t.cents

\* m[1] of the "<amount> RAISED" patterns: the capture group ends before the cents
Captured(t) == [t EXCEPT !.cents = 0]

\* Math.round, for numbers that are not negative
MathRound(n) == Dollars((n + 50) \div 100)

\* Positions of "<amount> RAISED" in a text: the amount's index.
RaisedAt(text, ci, needDollar) ==
  {i \in 1 .. (Len(text) - 1) :
     /\ IsAmt(text[i])
     /\ (needDollar => text[i].dollar)
     /\ IsRaised(text[i + 1], ci)}

\* the amounts of a text, with or without the "$"
DollarValues_anyAmount(text) ==
  {parseMoneyToNumber(text[i]) : i \in {j \in 1 .. Len(text) : IsAmt(text[j])}}

\* Values of the "$<amount>" substrings of a text.
DollarValues(text) ==
  {parseMoneyToNumber(text[i]) : i \in {j \in 1 .. Len(text) : IsDollarAmt(text[j])}}

HasRaised(text, ci) == \E i \in 1 .. Len(text) : IsRaised(text[i], ci)
HasGoal(text) == \E i \in 1 .. Len(text) : IsGoal(text[i])

\* filtered.length ? filtered : vals, then Math.max
PickUnderGoal(vals) ==
  LET filtered == {v \in vals : v <= Dollars(GOAL)}
      pickFrom == IF filtered # {} THEN filtered ELSE vals
  IN Max(pickFrom)

\* ------------------------------------------------ src/api/score-total.js
\* every element of the document ("*"): html and body hold all the text
Elements(pg) == <<BodyText(pg), BodyText(pg)>> \o pg.blocks

StrictVals_api(pg) ==
  LET html == HtmlText(pg)
  IN {v \in {parseMoneyToNumber(Captured(html[i])) : i \in RaisedAt(html, FALSE, FALSE)} :
        v > 0}

ElementVals_api(pg) ==
  LET els == Elements(pg)
  IN UNION {{v \in DollarValues(els[e]) : v > 0} :
            e \in {x \in 1 .. Len(els) : HasRaised(els[x], FALSE)}}

\* first "<amount> RAISED|raised ... GOAL" of the body text (flag i)
NearGoalAt(body) ==
  {i \in RaisedAt(body, TRUE, FALSE) : \E j \in (i + 2) .. Len(body) : IsGoal(body[j])}

LastResortVals_api(pg) == {v \in DollarValues(BodyText(pg)) : v > 0 /\ v # Dollars(GOAL)}

extractRaised_api(pg) ==
  LET strict == StrictVals_api(pg)
      elementVals == ElementVals_api(pg)
      body == BodyText(pg)
      mg == NearGoalAt(body)
      v3 == parseMoneyToNumber(Captured(body[Min(mg)]))
      vals == LastResortVals_api(pg)
  IN IF strict # {}
       THEN [value |-> PickUnderGoal(strict), method |-> "strict-uppercase-raised"]
     ELSE IF elementVals # {}
       THEN [value |-> PickUnderGoal(elementVals), method |-> "element-uppercase-raised"]
     ELSE IF mg # {} /\ v3 > 0
       THEN [value |-> v3, method |-> "raised-near-goal-fallback"]
     ELSE IF vals # {}
       THEN [value |-> Max(vals), method |-> "last-resort-currency-max"]
     ELSE Null

\* ------------------------------------ src/unnamed/part_001, first module
\* :contains('RAISED'), :contains('Raised'), :contains('raised')
CandidateValues_p1a(pg) ==
  LET els == Elements(pg)
  IN UNION {{v \in DollarValues(els[e]) : v > 0} :
            e \in {x \in 1 .. Len(els) : HasRaised(els[x], TRUE)}}

FallbackPick_p1a(vals) ==
  LET filtered == {v \in vals : v # Dollars(GOAL) /\ v >= Dollars(MinPlausible)}
      pickFrom == IF filtered # {} THEN filtered ELSE vals
  IN Max(pickFrom)

extractRaised_p1a(pg) ==
  LET html == HtmlText(pg)
      m1 == RaisedAt(html, TRUE, FALSE)
      v1 == parseMoneyToNumber(Captured(html[Min(m1)]))
      candidateValues == CandidateValues_p1a(pg)
      bodyText == BodyText(pg)
      m2 == RaisedAt(bodyText, TRUE, TRUE)
      v2 == parseMoneyToNumber(bodyText[Min(m2)])
      vals == {v \in DollarValues(bodyText) : v > 0}
  IN IF m1 # {} /\ v1 > 0
       THEN [value |-> v1, method |-> "regex-dollar-raised"]
     ELSE IF candidateValues # {} /\ PickUnderGoal(candidateValues) > 0
       THEN [value |-> PickUnderGoal(candidateValues), method |-> "element-containing-raised"]
     ELSE IF m2 # {} /\ v2 > 0
       THEN [value |-> v2, method |-> "body-raised-token"]
     ELSE IF vals # {}
       THEN [value |-> FallbackPick_p1a(vals), method |-> "fallback-currency-max"]
     ELSE Null

\* ----------------------------------- src/unnamed/part_001, second module
\* every number found anywhere in the parsed JSON of the inline scripts
collectNumbersDeep(pg) == pg.head

\* 0 stands for the null the source returns when nothing is plausible
pickBestRaised(candidates, goal) ==
  LET clean == {x \in {MathRound(c) : c \in candidates} : x >= Dollars(MinPlausible)}
      underGoal == IF goal # 0 THEN {x \in clean : x <= Dollars(goal)} ELSE clean
      pool == IF underGoal # {} THEN underGoal ELSE clean
  IN IF clean = {} THEN 0 ELSE Max(pool)

StrictVals_p1b(pg) ==
  LET html == HtmlText(pg)
  IN {v \in {parseMoneyToNumber(Captured(html[i])) : i \in RaisedAt(html, TRUE, FALSE)} :
        v >= Dollars(MinPlausible)}

\* the fallback amounts with the goal left in
FallbackVals_p1b_keepGoal(pg) ==
  {v \in DollarValues(BodyText(pg)) : v >= Dollars(MinPlausible)}

FallbackVals_p1b(pg) ==
  {v \in DollarValues(BodyText(pg)) : v >= Dollars(MinPlausible) /\ v # Dollars(GOAL)}

extractRaisedFromHtml(pg) ==
  LET bestJson == pickBestRaised(collectNumbersDeep(pg), GOAL)
      best == pickBestRaised(StrictVals_p1b(pg), GOAL)
      bestFallback == pickBestRaised(FallbackVals_p1b(pg), GOAL)
  IN IF bestJson # 0 THEN [value |-> bestJson, method |-> "json-script-extract"]
     ELSE IF best # 0 THEN [value |-> best, method |-> "html-raised-pattern"]
     ELSE IF bestFallback # 0 THEN [value |-> bestFallback, method |-> "fallback-currency"]
     ELSE Null

\* ------------------------------------------------- src/unnamed/part_002
TokLen(t) ==
  IF t.k = "amt"
    THEN (IF t.dollar THEN 1 ELSE 0) + (IF t.cents # 0 THEN 3 ELSE 0)
           + (IF Len(t.groups) = 1 THEN (IF t.groups[1] < 10 THEN 1 ELSE 3) ELSE 7)
  ELSE IF t.k = "GOAL" THEN 4 ELSE 6

RECURSIVE TextLen(_)
TextLen(text) ==
  IF text = <<>> THEN 0
  ELSE TokLen(text[1]) + (IF Len(text) > 1 THEN 1 ELSE 0) + TextLen(Tail(text))

\* 0 stands for the null the source returns
bestFromHeaderText(t) ==
  LET vals == {v \in {parseMoneyToNumber(Captured(t[i])) : i \in RaisedAt(t, TRUE, FALSE)} :
                 v > 0 /\ v <= Dollars(GOAL)}
  IN IF ~HasRaised(t, TRUE) \/ ~HasGoal(t) \/ vals = {} THEN 0 ELSE Max(vals)

\* the blocks ("body *") that hold both anchors and a value
HeaderCandidates(pg) ==
  {b \in 1 .. Len(pg.blocks) :
     /\ HasRaised(pg.blocks[b], TRUE)
     /\ HasGoal(pg.blocks[b])
     /\ bestFromHeaderText(pg.blocks[b]) # 0}

\* candidates.sort((a, b) => a.len - b.len)[0]: the shortest, the first of equals
ShortestBlock(pg, cands) ==
  CHOOSE b \in cands :
    \A c \in cands :
      \/ TextLen(pg.blocks[b]) < TextLen(pg.blocks[c])
      \/ (TextLen(pg.blocks[b]) = TextLen(pg.blocks[c]) /\ b <= c)

\* the "<X> RAISED ... GOAL ... <Y>" matches at or after position from, left to
\* right and without overlap: the positions of their X
RECURSIVE BoundedAt(_, _)
BoundedAt(html, from) ==
  LET starts == {i \in RaisedAt(html, TRUE, FALSE) :
                   /\ i >= from
                   /\ \E j \in (i + 2) .. Len(html) :
                        IsGoal(html[j]) /\ \E k \in (j + 1) .. Len(html) : IsAmt(html[k])}
      i0 == Min(starts)
      j0 == Min({j \in (i0 + 2) .. Len(html) : IsGoal(html[j])})
      k0 == Min({k \in (j0 + 1) .. Len(html) : IsAmt(html[k])})
  IN IF starts = {} THEN {} ELSE {i0} \cup BoundedAt(html, k0 + 1)

BoundedVals_p2(pg) ==
  LET html == HtmlText(pg)
  IN {v \in {parseMoneyToNumber(Captured(html[i])) : i \in BoundedAt(html, 1)} :
        v > 0 /\ v <= Dollars(GOAL)}

extractRaised_p2(pg) ==
  LET candidates == HeaderCandidates(pg)
      vals == BoundedVals_p2(pg)
  IN IF candidates # {}
       THEN [value |-> bestFromHeaderText(pg.blocks[ShortestBlock(pg, candidates)]),
             method |-> "header-block-raised-goal"]
     ELSE IF vals # {}
       THEN [value |-> Max(vals), method |-> "bounded-raised-goal-pattern"]
     ELSE Null

\* ------------------------------------------------- src/unnamed/part_000
\* the rendered "$X RAISED" values with zero left in
RaisedValues_r0_unfiltered(pg) ==
  LET renderedText == BodyText(pg)
  IN {v \in {parseMoneyToNumber(renderedText[i]) : i \in RaisedAt(renderedText, TRUE, TRUE)} :
        v # Dollars(GOAL)}

\* Number(m[1].replace(/,/g, "")): here the capture group holds the cents
RaisedValues_r0(pg) ==
  LET renderedText == BodyText(pg)
  IN {v \in {parseMoneyToNumber(renderedText[i]) : i \in RaisedAt(renderedText, TRUE, TRUE)} :
        v > 0 /\ v # Dollars(GOAL)}

extract_r0(pg) ==
  LET raisedValues == RaisedValues_r0(pg)
  IN IF raisedValues = {} THEN Null
     ELSE [value |-> Max(raisedValues), method |-> "playwright-strict-raised"]

\* ------------------------------------------------- src/unnamed/part_003
\* this module's parseMoneyToNumber rounds what it read
parseMoneyToNumber_r3(t) == MathRound(parseMoneyToNumber(t))

Values_r3(pg) ==
  LET renderedText == BodyText(pg)
  IN {v \in {parseMoneyToNumber_r3(Captured(renderedText[i])) :
               i \in RaisedAt(renderedText, TRUE, FALSE)} :
        v > 0}

extract_r3(pg) ==
  LET values == Values_r3(pg)
  IN IF values = {} THEN Null
     ELSE [value |-> PickUnderGoal(values), method |-> "playwright-rendered-dom"]

\* ------------------------------------------------------------- variants
PlainVariants == {"api", "p1a", "p1b", "p2"}
RenderedVariants == {"r0", "r3"}
Variants == PlainVariants \cup RenderedVariants

Extract(v, pg) ==
  CASE v = "api" -> extractRaised_api(pg)
    [] v = "p1a" -> extractRaised_p1a(pg)
    [] v = "p1b" -> extractRaisedFromHtml(pg)
    [] v = "p2" -> extractRaised_p2(pg)
    [] v = "r0" -> extract_r0(pg)
    [] v = "r3" -> extract_r3(pg)

\* what the handler learns of a page: its extraction, and (for the record)
\* which signals the page held
Sig(pg) ==
  [dollar |-> \E i \in 1 .. Len(BodyText(pg)) : IsDollarAmt(BodyText(pg)[i]),
   raised |-> HasRaised(BodyText(pg), TRUE),
   json |-> \E n \in pg.head : n >= 99950]
NoSig == [kind |-> "unread"]

PageOutcome(v, pg) == [extracted |-> Extract(v, pg), sig |-> Sig(pg)]
PageOutcomes ==
  [v \in Variants |->
     UNION {{PageOutcome(v, PageOf(s, brk, j)) :
               brk \in SUBSET (1 .. (Len(s) - 1)), j \in SUBSET JsonNumbers} :
            s \in SeqsUpTo(Phrases, MaxServedPhrases)}]

\* ------------------------------------------------------------- responder
RoundDiv(a, b) == (2 * a + b) \div (2 * b)

\* the percentage cut off after two decimals
toFixed2_truncating(totalRaised) == totalRaised \div (GOAL \div 100)

\* Number(((totalRaised / GOAL) * 100).toFixed(2)), in hundredths of a percent
toFixed2(totalRaised) == RoundDiv(totalRaised, GOAL \div 100)

\* totalRaisedDisplay, goalDisplay, updatedAt and source are left out: they are
\* derived from totalRaised, GOAL, the clock and a constant
BuildPayload(ex) ==
  [totalRaised |-> ex.value,
   goal |-> GOAL,
   progressPct |-> toFixed2(ex.value),
   method |-> ex.method,
   stale |-> FALSE]

\* !extracted?.value
NoValue(ex) == ex = Null \/ ex.value = 0

NoteFor(kind) ==
  CASE kind = "fetch" -> "source fetch failed; returning last known value"
    [] kind = "parse" -> "parse failed; returning last known value"
    [] kind = "exception" -> "exception; returning last known value"

ErrorStatus_always500(kind) == 500

ErrorStatus(kind) == IF kind = "fetch" THEN 502 ELSE 500

ErrorBody(kind) ==
  CASE kind = "fetch" -> [error |-> "Failed to fetch campaign page"]
    [] kind = "parse" -> [error |-> "Could not parse total raised"]
    [] kind = "exception" -> [error |-> "Server error", details |-> "e"]

\* { ...lastKnown, stale: true, note }
StaleCopy(lk, note) == [stale |-> TRUE, note |-> note] @@ lk

\* failure exits that never look at the cache
FailureResponse_noCache(kind, lk) == [status |-> ErrorStatus(kind), body |-> ErrorBody(kind)]

\* the three failure exits of the plain-fetch handlers
FailureResponse(kind, lk) ==
  IF lk # Null THEN [status |-> 200, body |-> StaleCopy(lk, NoteFor(kind))]
  ELSE [status |-> ErrorStatus(kind), body |-> ErrorBody(kind)]

\* the cache written only while it is empty
NewCache_keepFirst(old, payload) == IF old = Null THEN payload ELSE old

\* lastKnown = payload
NewCache(old, payload) == payload

\* the rendered handlers answer every failure with 500
RenderedFailure(kind) ==
  [status |-> 500,
   body |-> [error |-> "Could not parse total raised",
             details |-> IF kind = "parse" THEN "No '$X RAISED' value found" ELSE "e"]]

\* a handler with no finally block
FinallyPc_noClose(b) == "done"

\* finally { if (browser) await browser.close(); }
FinallyPc(b) == IF b THEN "close" ELSE "done"

\* ------------------------------------------------------------------ state
NumProcs == 2
Procs == 1 .. NumProcs
SeqProcs == {1}

VARIABLES
  variant,     \* the handler module this process serves
  page,        \* the page under extraction (SpecExtract)
  extracted,   \* its extraction result (SpecExtract)
  lastKnown,   \* the module-level cache
  pc,          \* each invocation's position
  sent,        \* the responses each invocation has sent
  browser,     \* whether the invocation's browser handle is set
  closeCalls,  \* how often the invocation has called browser.close()
  escaped,     \* whether an exception left the handler
  path,        \* history: the exit the invocation took
  seen,        \* history: the signals of the page it read
  lastOk,      \* history: the payload of the latest successful invocation
  coldStart    \* history: whether the cache was empty when the invocation entered

hvars == <<lastKnown, pc, sent, browser, closeCalls, escaped, path, seen, lastOk, coldStart>>
vars == <<variant, page, extracted, lastKnown, pc, sent, browser, closeCalls, escaped,
          path, seen, lastOk, coldStart>>

NoPath == [kind |-> "none", at |-> "-"]
Exit(kind, at) == [kind |-> kind, at |-> at]

InitHandler ==
  /\ lastKnown = Null
  /\ pc = [p \in Procs |-> "idle"]
  /\ sent = [p \in Procs |-> <<>>]
  /\ browser = [p \in Procs |-> FALSE]
  /\ closeCalls = [p \in Procs |-> 0]
  /\ escaped = [p \in Procs |-> FALSE]
  /\ path = [p \in Procs |-> NoPath]
  /\ seen = [p \in Procs |-> NoSig]
  /\ lastOk = Null
  /\ coldStart = [p \in Procs |-> TRUE]

Init ==
  /\ variant \in Variants
  /\ page = [head |-> {}, blocks |-> <<>>]
  /\ extracted = Pending
  /\ InitHandler

\* ------------------------------------------------- the plain-fetch handlers
\* handler(req, res) is entered: fetch(...) or chromium.executablePath() is awaited
Start(p) ==
  /\ pc[p] \in {"idle", "done"}
  /\ pc' = [pc EXCEPT ![p] = IF variant \in PlainVariants THEN "fetch" ELSE "exePath"]
  /\ sent' = [sent EXCEPT ![p] = <<>>]
  /\ browser' = [browser EXCEPT ![p] = FALSE]
  /\ closeCalls' = [closeCalls EXCEPT ![p] = 0]
  /\ escaped' = [escaped EXCEPT ![p] = FALSE]
  /\ path' = [path EXCEPT ![p] = NoPath]
  /\ seen' = [seen EXCEPT ![p] = NoSig]
  /\ coldStart' = [coldStart EXCEPT ![p] = (lastKnown = Null)]
  /\ UNCHANGED <<variant, page, extracted, lastKnown, lastOk>>

\* the stale copy stored back into the cache
CacheAfterFailure_storeStale(kind, lk) ==
  IF lk # Null THEN StaleCopy(lk, NoteFor(kind)) ELSE lk

\* the failure exits only read lastKnown: the spread builds a new object
CacheAfterFailure(kind, lk) == lk

\* a failure exit of a plain-fetch handler: the response, and nothing else changes
Fail(p, kind, at) ==
  /\ sent' = [sent EXCEPT ![p] = Append(@, FailureResponse(kind, lastKnown))]
  /\ path' = [path EXCEPT ![p] = Exit(kind, at)]
  /\ pc' = [pc EXCEPT ![p] = "done"]
  /\ lastKnown' = CacheAfterFailure(kind, lastKnown)
  /\ UNCHANGED lastOk

\* fetch resolves: resp.ok or not
FetchResolve(p) ==
  /\ pc[p] = "fetch"
  /\ \E ok \in BOOLEAN :
       IF ok
         THEN /\ pc' = [pc EXCEPT ![p] = "text"]
              /\ UNCHANGED <<sent, path, lastKnown, lastOk>>
         ELSE Fail(p, "fetch", "fetch")
  /\ UNCHANGED <<coldStart, variant, page, extracted, browser, closeCalls, escaped, seen>>

\* fetch rejects (a network error): the catch block
FetchReject(p) ==
  /\ pc[p] = "fetch"
  /\ Fail(p, "exception", "fetch")
  /\ UNCHANGED <<coldStart, variant, page, extracted, browser, closeCalls, escaped, seen>>

\* resp.text() resolves: extraction, payload, cache and response run without a
\* suspension point
TextResolve(p) ==
  /\ pc[p] = "text"
  /\ \E o \in PageOutcomes[variant] :
       /\ seen' = [seen EXCEPT ![p] = o.sig]
       /\ IF NoValue(o.extracted)
            THEN Fail(p, "parse", "text")
            ELSE LET payload == BuildPayload(o.extracted)
                 IN /\ lastKnown' = NewCache(lastKnown, payload)
                    /\ lastOk' = payload
                    /\ sent' = [sent EXCEPT ![p] = Append(@, [status |-> 200, body |-> payload])]
                    /\ path' = [path EXCEPT ![p] = Exit("ok", "-")]
                    /\ pc' = [pc EXCEPT ![p] = "done"]
  /\ UNCHANGED <<coldStart, variant, page, extracted, browser, closeCalls, escaped>>

\* resp.text() rejects: the catch block
TextReject(p) ==
  /\ pc[p] = "text"
  /\ Fail(p, "exception", "text")
  /\ UNCHANGED <<coldStart, variant, page, extracted, browser, closeCalls, escaped, seen>>

\* --------------------------------------------------- the rendered handlers
NextAwait(at) ==
  CASE at = "exePath" -> "launch"
    [] at = "launch" -> "newPage"
    [] at = "newPage" -> "goto"
    [] at = "goto" -> "wait"
    [] at = "wait" -> "evaluate"

\* executablePath, launch, newPage, goto or waitForTimeout resolves
AwaitResolve(p) ==
  /\ pc[p] \in {"exePath", "launch", "newPage", "goto", "wait"}
  /\ pc' = [pc EXCEPT ![p] = NextAwait(pc[p])]
  /\ browser' = [browser EXCEPT ![p] = @ \/ pc[p] = "launch"]
  /\ UNCHANGED <<coldStart, variant, page, extracted, lastKnown, sent, closeCalls, escaped, path,
                 seen, lastOk>>

\* the try block has ended (by return or through catch): the finally block
Finally(p) ==
  /\ pc' = [pc EXCEPT ![p] = FinallyPc(browser[p])]
  /\ closeCalls' = [closeCalls EXCEPT ![p] = IF FinallyPc(browser[p]) = "close" THEN @ + 1 ELSE @]

\* any awaited call of the try block rejects (launch failure, navigation timeout)
AwaitReject(p) ==
  /\ pc[p] \in {"exePath", "launch", "newPage", "goto", "wait", "evaluate"}
  /\ sent' = [sent EXCEPT ![p] = Append(@, RenderedFailure("exception"))]
  /\ path' = [path EXCEPT ![p] = Exit("exception", pc[p])]
  /\ Finally(p)
  /\ UNCHANGED <<coldStart, variant, page, extracted, lastKnown, browser, escaped, seen, lastOk>>

\* page.evaluate resolves with the rendered text: extraction and response
EvaluateResolve(p) ==
  /\ pc[p] = "evaluate"
  /\ \E o \in PageOutcomes[variant] :
       /\ seen' = [seen EXCEPT ![p] = o.sig]
       /\ IF o.extracted = Null
            THEN /\ sent' = [sent EXCEPT ![p] = Append(@, RenderedFailure("parse"))]
                 /\ path' = [path EXCEPT ![p] = Exit("parse", "evaluate")]
                 /\ UNCHANGED lastOk
            ELSE /\ sent' = [sent EXCEPT ![p] =
                               Append(@, [status |-> 200, body |-> BuildPayload(o.extracted)])]
                 /\ path' = [path EXCEPT ![p] = Exit("ok", "-")]
                 /\ lastOk' = BuildPayload(o.extracted)
  /\ Finally(p)
  /\ UNCHANGED <<coldStart, variant, page, extracted, lastKnown, browser, escaped>>

\* browser.close() resolves
CloseResolve(p) ==
  /\ pc[p] = "close"
  /\ pc' = [pc EXCEPT ![p] = "done"]
  /\ UNCHANGED <<coldStart, variant, page, extracted, lastKnown, sent, browser, closeCalls, escaped,
                 path, seen, lastOk>>

\* browser.close() rejects: nothing catches it
CloseReject(p) ==
  /\ pc[p] = "close"
  /\ pc' = [pc EXCEPT ![p] = "done"]
  /\ escaped' = [escaped EXCEPT ![p] = TRUE]
  /\ UNCHANGED <<coldStart, variant, page, extracted, lastKnown, sent, browser, closeCalls, path,
                 seen, lastOk>>

Step(p) ==
  \/ Start(p)
  \/ FetchResolve(p)
  \/ FetchReject(p)
  \/ TextResolve(p)
  \/ TextReject(p)
  \/ AwaitResolve(p)
  \/ AwaitReject(p)
  \/ EvaluateResolve(p)
  \/ CloseResolve(p)
  \/ CloseReject(p)

\* one request at a time
Next == \E p \in SeqProcs : Step(p)

Spec == Init /\ [][Next]_vars

\* several invocations in flight: each step runs one of them from a suspension
\* point (an await) to its next one or to its end
NextConcurrent == \E p \in Procs : Step(p)

SpecConcurrent == Init /\ [][NextConcurrent]_vars

\* ------------------------------------------- extraction as a pure function
InitExtract ==
  /\ variant \in Variants
  /\ \E s \in SeqsUpTo(Phrases, MaxPhrases) :
       \E brk \in SUBSET (1 .. (Len(s) - 1)), j \in SUBSET JsonNumbers :
         page = PageOf(s, brk, j)
  /\ extracted = Pending
  /\ InitHandler

\* the variant's extractor applied to the page
RunExtract ==
  /\ extracted = Pending
  /\ extracted' = Extract(variant, page)
  /\ UNCHANGED <<variant, page>>
  /\ UNCHANGED hvars

SpecExtract == InitExtract /\ [][RunExtract]_vars

\* ================================================================ properties
Done(p) == pc[p] = "done"
Failed(p) == path[p].kind \in {"fetch", "parse", "exception"}
IsPayload(b) == "totalRaised" \in DOMAIN b
Fresh(r) == IsPayload(r.body) /\ r.body.stale = FALSE
IsStale(r) == IsPayload(r.body) /\ r.body.stale = TRUE

\* C1: in a plain-fetch handler, once an invocation has succeeded, every later
\* failing invocation (upstream not OK, no extracted value, exception) answers
\* 200 with stale = true, a note, and the totalRaised of the latest success.
C1_StaleServesLatestSuccess ==
  \A p \in Procs :
    (variant \in PlainVariants /\ Done(p) /\ Failed(p) /\ lastOk # Null) =>
      /\ Len(sent[p]) = 1
      /\ sent[p][1].status = 200
      /\ IsStale(sent[p][1])
      /\ "note" \in DOMAIN sent[p][1].body
      /\ sent[p][1].body.note # ""
      /\ sent[p][1].body.totalRaised = lastOk.totalRaised

\* a parse failure after a success, answered with the cached 186576
C1_Witness ==
  \E p \in Procs :
    /\ variant = "api" /\ Done(p) /\ path[p].kind = "parse"
    /\ lastOk # Null /\ lastOk.totalRaised = Dollars(186576)
    /\ sent[p][1].status = 200 /\ IsStale(sent[p][1])
    /\ sent[p][1].body.totalRaised = Dollars(186576)

\* C2: a plain-fetch handler that fails before any invocation has succeeded
\* sends no payload; its status is 502 when the upstream status was not OK and
\* 500 when extraction gave no value or an exception was thrown.
C2_FirstFailureStatus ==
  \A p \in Procs :
    (variant \in PlainVariants /\ Done(p) /\ Failed(p) /\ lastOk = Null) =>
      /\ Len(sent[p]) = 1
      /\ ~IsPayload(sent[p][1].body)
      /\ "error" \in DOMAIN sent[p][1].body
      /\ sent[p][1].status = (IF path[p].kind = "fetch" THEN 502 ELSE 500)

\* an upstream failure on an empty cache, answered 502
C2_Witness ==
  \E p \in Procs :
    /\ variant \in PlainVariants /\ Done(p) /\ path[p].kind = "fetch"
    /\ lastOk = Null /\ lastKnown = Null
    /\ sent[p][1].status = 502

\* C3: in every variant, a response with stale = false carries a positive
\* totalRaised and comes from an invocation whose fetch and extraction succeeded.
C3_FreshIsPositive ==
  \A p \in Procs : \A i \in 1 .. Len(sent[p]) :
    Fresh(sent[p][i]) =>
      /\ sent[p][i].status = 200
      /\ sent[p][i].body.totalRaised > 0
      /\ path[p].kind = "ok"

\* a fresh response of a rendered handler
C3_Witness ==
  \E p \in Procs :
    /\ variant = "r0" /\ Len(sent[p]) = 1 /\ Fresh(sent[p][1])
    /\ sent[p][1].body.totalRaised > 0

\* C4: in every variant, the rendered ones included, a 500 or 502 is sent only
\* while no earlier invocation of the process has succeeded.
C4_ErrorOnlyBeforeFirstSuccess ==
  \A p \in Procs :
    (Done(p) /\ Len(sent[p]) >= 1 /\ sent[p][1].status \in {500, 502}) => lastOk = Null

\* C5: in a rendered handler, on every exit path after the browser was launched
\* browser.close() is called exactly once before the invocation completes, and
\* it is not called when the launch (or what precedes it) failed.
C5_BrowserClosedOnce ==
  \A p \in Procs :
    variant \in RenderedVariants =>
      /\ closeCalls[p] <= 1
      /\ (browser[p] /\ path[p] # NoPath) => closeCalls[p] = 1
      /\ Done(p) => closeCalls[p] = (IF browser[p] THEN 1 ELSE 0)
      /\ (path[p].kind = "exception" /\ path[p].at \in {"exePath", "launch"}) =>
           (~browser[p] /\ closeCalls[p] = 0 /\ Done(p))
      /\ path[p] = NoPath => closeCalls[p] = 0

\* a navigation timeout after the launch, with the browser closed once
C5_Witness ==
  \E p \in Procs :
    /\ variant \in RenderedVariants /\ Done(p)
    /\ path[p] = Exit("exception", "goto")
    /\ browser[p] /\ closeCalls[p] = 1

\* C9: in every response with stale = false, goal is 250000 and progressPct is
\* totalRaised / goal * 100 rounded to two decimals (progressPct in hundredths
\* of a percent, totalRaised in hundredths of a dollar); for totalRaised =
\* 125000 it is 50.00.
C9_ProgressPct ==
  \A p \in Procs : \A i \in 1 .. Len(sent[p]) :
    Fresh(sent[p][i]) =>
      LET b == sent[p][i].body
          err == b.progressPct * 2500 - b.totalRaised
      IN /\ b.goal = 250000
         /\ 2 * err <= 2500
         /\ 2 * err > -2500
         /\ (b.totalRaised = Dollars(125000) => b.progressPct = 5000)

\* a fresh response for 125000 raised, at 50.00 percent
C9_Witness ==
  \E p \in Procs :
    /\ Len(sent[p]) = 1 /\ Fresh(sent[p][1])
    /\ sent[p][1].body.totalRaised = Dollars(125000)
    /\ sent[p][1].body.progressPct = 5000

\* the parse-failure exit: no fresh result; the plain-fetch handlers answer 500
\* on an empty cache and the stale payload otherwise, the rendered ones 500
ParseFailurePath(p) ==
  /\ path[p].kind = "parse"
  /\ Len(sent[p]) = 1
  /\ ~Fresh(sent[p][1])
  /\ IF variant \in PlainVariants /\ lastOk # Null
       THEN sent[p][1].status = 200 /\ IsStale(sent[p][1])
       ELSE sent[p][1].status = 500 /\ ~IsPayload(sent[p][1].body)

\* C8 as stated: a page with no dollar-formatted amount and no "RAISED" token
\* (in any letter case) gives no value in any variant, and the handler takes
\* the parse-failure path.
C8_NoSignalFailsParse ==
  \A p \in Procs :
    (seen[p] # NoSig /\ ~seen[p].dollar /\ ~seen[p].raised) => ParseFailurePath(p)

\* C8, amended: the same for a page that has no "RAISED" in any letter case and
\* moreover no inline JSON script block yielding a number of 999.50 or more.
C8_NoSignalNoJsonFailsParse ==
  \A p \in Procs :
    (seen[p] # NoSig /\ ~seen[p].dollar /\ ~seen[p].raised /\ ~seen[p].json) =>
      ParseFailurePath(p)

\* such a page read after a success: the stale payload is served
C8_Witness ==
  \E p \in Procs :
    /\ variant = "p1b" /\ seen[p] # NoSig
    /\ ~seen[p].dollar /\ ~seen[p].raised /\ ~seen[p].json
    /\ path[p].kind = "parse" /\ lastOk # Null /\ IsStale(sent[p][1])

\* ------------------------------------------------- properties of extraction
Extracted == extracted # Pending
Target == Amt(TRUE, <<186, 576>>, 0)

\* the markup contains "$186,576 RAISED"
ContainsTarget(pg) ==
  \E i \in 1 .. (Len(HtmlText(pg)) - 1) :
    HtmlText(pg)[i] = Target /\ HtmlText(pg)[i + 1] = Word("RAISED")

\* every "<number> RAISED" phrase of the markup, in any letter case, is
\* "$186,576 RAISED"
OnlyTarget(pg) ==
  \A i \in 1 .. (Len(HtmlText(pg)) - 1) :
    (HtmlText(pg)[i].k = "amt" /\ HtmlText(pg)[i + 1].k \in {"RAISED", "raised"}) =>
      (HtmlText(pg)[i] = Target /\ HtmlText(pg)[i + 1].k = "RAISED")

FirstPatternTag(v) ==
  CASE v = "api" -> "strict-uppercase-raised"
    [] v = "p1a" -> "regex-dollar-raised"
    [] v = "p1b" -> "html-raised-pattern"

\* C6 as stated: for every page that contains "$186,576 RAISED", whatever else
\* it contains, the plain-fetch extractors return 186576.
C6_TargetAlwaysWins ==
  (Extracted /\ variant \in {"api", "p1a", "p1b"} /\ ContainsTarget(page)) =>
    (extracted # Null /\ extracted.value = Dollars(186576))

\* C6, amended: for every page that contains "$186,576 RAISED", no other
\* "<number> RAISED" phrase in any letter case and no inline JSON number of
\* 999.50 or more, they return 186576 tagged with their "$X RAISED" pattern stage,
\* whatever other dollar amounts the page holds.
C6_TargetWinsAlone ==
  (/\ Extracted
   /\ variant \in {"api", "p1a", "p1b"}
   /\ ContainsTarget(page)
   /\ OnlyTarget(page)
   /\ \A n \in page.head : n < 99950) =>
    extracted = [value |-> Dollars(186576), method |-> FirstPatternTag(variant)]

\* "$186,576 RAISED" beside "$250,000 GOAL" and a small JSON number
C6_Witness ==
  /\ Extracted
  /\ variant = "p1b"
  /\ page.blocks = <<<<Target, Word("RAISED"), Amt(TRUE, <<250, 0>>, 0), Word("GOAL")>>>>
  /\ page.head = {Dollars(50)}
  /\ extracted = [value |-> Dollars(186576), method |-> "html-raised-pattern"]

\* the selection policy: the largest candidate <= goal when there is one, the
\* largest candidate otherwise
GoalPolicy(cands, value) ==
  /\ value \in cands
  /\ IF \E c \in cands : c <= Dollars(250000)
       THEN /\ value <= Dollars(250000)
            /\ \A c \in cands : c <= Dollars(250000) => c <= value
       ELSE \A c \in cands : c <= value

\* the positive amounts of the "<amount> RAISED" phrases of a text, read with
\* or without their cents
RaisedAmounts(text, ci, needDollar, withCents) ==
  {v \in {Dollars(DigitsValue(text[i].groups)) + (IF withCents THEN text[i].cents ELSE 0) :
            i \in RaisedAt(text, ci, needDollar)} : v > 0}

PositiveDollars(pg) == {v \in DollarValues(BodyText(pg)) : v > 0}

\* the candidates of the stage that produced a result
StageCandidates(pg, method) ==
  CASE method = "strict-uppercase-raised" -> RaisedAmounts(HtmlText(pg), FALSE, FALSE, FALSE)
    [] method = "element-uppercase-raised" -> PositiveDollars(pg)
    [] method = "raised-near-goal-fallback" ->
         {w \in {Dollars(DigitsValue(BodyText(pg)[i].groups)) : i \in NearGoalAt(BodyText(pg))} :
            w > 0}
    [] method = "last-resort-currency-max" -> PositiveDollars(pg)
    [] method = "regex-dollar-raised" -> RaisedAmounts(HtmlText(pg), TRUE, FALSE, FALSE)
    [] method = "element-containing-raised" -> PositiveDollars(pg)
    [] method = "body-raised-token" -> RaisedAmounts(BodyText(pg), TRUE, TRUE, TRUE)
    [] method = "fallback-currency-max" -> PositiveDollars(pg)
    [] method = "json-script-extract" -> {n \in {MathRound(h) : h \in pg.head} : n > 0}
    [] method = "html-raised-pattern" -> RaisedAmounts(HtmlText(pg), TRUE, FALSE, FALSE)
    [] method = "fallback-currency" -> {MathRound(w) : w \in PositiveDollars(pg)}
    [] method = "header-block-raised-goal" ->
         UNION {RaisedAmounts(pg.blocks[b], TRUE, FALSE, FALSE) :
                b \in {c \in 1 .. Len(pg.blocks) : HasGoal(pg.blocks[c])}}
    [] method = "bounded-raised-goal-pattern" ->
         {w \in {Dollars(DigitsValue(HtmlText(pg)[i].groups)) : i \in BoundedAt(HtmlText(pg), 1)} :
            w > 0}
    [] method = "playwright-strict-raised" -> RaisedAmounts(BodyText(pg), TRUE, TRUE, TRUE)
    [] method = "playwright-rendered-dom" -> RaisedAmounts(BodyText(pg), TRUE, FALSE, FALSE)

\* the only RAISED amount is $260,000, next to $250,000 GOAL
OverGoalInput(pg) ==
  /\ pg.head = {}
  /\ pg.blocks \in
       {<<<<Amt(TRUE, <<260, 0>>, 0), Word("RAISED"), Amt(TRUE, <<250, 0>>, 0), Word("GOAL")>>>>,
        <<<<Amt(TRUE, <<260, 0>>, 0), Word("RAISED"), Word("GOAL"), Amt(TRUE, <<250, 0>>, 0)>>>>}

\* C7: at every stage of every variant the selected value is the largest
\* candidate <= goal when there is one and the largest candidate otherwise, and
\* the page whose only RAISED amount is $260,000 next to $250,000 GOAL gives
\* 260000, not a parse failure.
C7_PolicyAtEveryStage ==
  Extracted =>
    /\ extracted # Null =>
         GoalPolicy(StageCandidates(page, extracted.method), extracted.value)
    /\ OverGoalInput(page) => (extracted # Null /\ extracted.value = Dollars(260000))

\* ------------------------------------------------------------ last resort
LastResortMethods ==
  {"last-resort-currency-max", "fallback-currency-max", "fallback-currency"}

\* the page's dollar amounts without the goal and without those under 1000
Survivors(pg) ==
  {v \in DollarValues(BodyText(pg)) : v # Dollars(250000) /\ v >= Dollars(1000)}

\* the stages before the last one found nothing
EarlierStagesEmpty(v, pg) ==
  CASE v = "api" ->
         /\ StrictVals_api(pg) = {}
         /\ ElementVals_api(pg) = {}
         /\ \A i \in NearGoalAt(BodyText(pg)) : DigitsValue(BodyText(pg)[i].groups) = 0
    [] v = "p1a" ->
         /\ RaisedAmounts(HtmlText(pg), TRUE, FALSE, FALSE) = {}
         /\ CandidateValues_p1a(pg) = {}
         /\ RaisedAmounts(BodyText(pg), TRUE, TRUE, TRUE) = {}
    [] v = "p1b" ->
         /\ \A n \in pg.head : n < 99950
         /\ \A w \in RaisedAmounts(HtmlText(pg), TRUE, FALSE, FALSE) : w < Dollars(1000)
    [] OTHER -> FALSE

\* C10 as stated: the last-resort stage is reached only when the earlier stages
\* yield nothing, never returns 250000 nor a value under 1000, and returns the
\* largest dollar amount of the page that is neither.
C10_LastResortMaxOfSurvivors ==
  (Extracted /\ extracted # Null /\ extracted.method \in LastResortMethods) =>
    /\ EarlierStagesEmpty(variant, page)
    /\ extracted.value # Dollars(250000)
    /\ extracted.value >= Dollars(1000)
    /\ Survivors(page) # {}
    /\ extracted.value = Max(Survivors(page))

\* C10, amended: the last-resort stage is reached only when the earlier stages
\* yield nothing. In the second part_001 module it never returns a value under
\* 1000: it rounds the surviving amounts to whole dollars and returns the
\* largest of them that is <= goal, or the largest of them when all exceed the
\* goal (so 250000 only for an amount that rounds to it), and nothing when none
\* survives. In the api module it excludes only the goal and the zero amounts
\* and returns the largest of the rest, which may be under 1000. In the first
\* part_001 module it returns the largest surviving amount, and the largest
\* positive amount of the page (the goal and small values included) when none
\* survives.
C10_LastResortPerVariant ==
  Extracted =>
    /\ (extracted # Null /\ extracted.method \in LastResortMethods) =>
         EarlierStagesEmpty(variant, page)
    /\ (extracted # Null /\ extracted.method = "fallback-currency") =>
         /\ extracted.value >= Dollars(1000)
         /\ GoalPolicy({MathRound(w) : w \in Survivors(page)}, extracted.value)
    /\ (extracted # Null /\ extracted.method = "last-resort-currency-max") =>
         /\ extracted.value # Dollars(250000)
         /\ extracted.value > 0
         /\ extracted.value \in DollarValues(BodyText(page))
         /\ \A w \in DollarValues(BodyText(page)) : w # Dollars(250000) => w <= extracted.value
    /\ (extracted # Null /\ extracted.method = "fallback-currency-max") =>
         IF Survivors(page) # {}
           THEN extracted.value = Max(Survivors(page))
           ELSE /\ extracted.value \in PositiveDollars(page)
                /\ \A w \in PositiveDollars(page) : w <= extracted.value
    /\ (extracted = Null /\ EarlierStagesEmpty(variant, page)) =>
         CASE variant = "api" -> \A w \in PositiveDollars(page) : w = Dollars(250000)
           [] variant = "p1a" -> PositiveDollars(page) = {}
           [] variant = "p1b" -> Survivors(page) = {}
           [] OTHER -> TRUE

\* the second part_001 module falls through to its last stage on a page with
\* $125,000 and $260,000 and returns the amount under the goal
C10_Witness ==
  /\ Extracted
  /\ variant = "p1b"
  /\ {Dollars(125000), Dollars(260000)} \subseteq DollarValues(BodyText(page))
  /\ extracted = [value |-> Dollars(125000), method |-> "fallback-currency"]

\* ------------------------------------------------------------- the cache
\* C11: lastKnown is written only by a successful invocation, which overwrites
\* it with the payload it sends; every failing invocation (fetch failure, parse
\* failure, exception) leaves it unchanged, and the cached payload keeps
\* stale = false and has no note, also after it was served as stale.
C11_CacheWrittenOnlyBySuccess ==
  [][
      /\ (lastKnown' # lastKnown) =>
           \E p \in Procs :
             /\ path[p] = NoPath /\ path'[p].kind = "ok"
             /\ sent'[p] = <<[status |-> 200, body |-> lastKnown']>>
      /\ \A p \in Procs :
           (variant \in PlainVariants /\ path[p] = NoPath /\ path'[p].kind = "ok") =>
             (Len(sent'[p]) = 1 /\ lastKnown' = sent'[p][1].body)
      /\ \A p \in Procs :
           (path[p] = NoPath /\ path'[p].kind \in {"fetch", "parse", "exception"}) =>
             lastKnown' = lastKnown
      /\ lastKnown' # Null =>
           (lastKnown'.stale = FALSE /\ "note" \notin DOMAIN lastKnown')
  ]_vars

\* a stale response was served and the cache still holds the fresh payload
C11_Witness ==
  \E p \in Procs :
    /\ variant \in PlainVariants /\ Done(p) /\ path[p].kind = "fetch"
    /\ IsStale(sent[p][1]) /\ "note" \in DOMAIN sent[p][1].body
    /\ lastKnown # Null /\ lastKnown.stale = FALSE /\ "note" \notin DOMAIN lastKnown
    /\ lastKnown.totalRaised = sent[p][1].body.totalRaised

\* ------------------------------------------------ concurrent invocations
\* the payload a stale body was copied from
Unstale(b) == [f \in DOMAIN b \ {"note"} |-> IF f = "stale" THEN FALSE ELSE b[f]]

\* C12: under any interleaving of concurrent plain-fetch invocations at their
\* awaits, lastKnown is always null or exactly the payload of the invocation
\* that succeeded last, it never returns to null, a failing invocation serves
\* the payload that was written most recently before it read the cache, and a
\* success stores its payload in the step that builds and sends it.
C12_CacheUnderInterleaving ==
  [][
      (variant \in PlainVariants) =>
        /\ lastKnown' = lastOk'
        /\ lastKnown # Null => lastKnown' # Null
        /\ \A p \in Procs :
             (path[p] = NoPath /\ path'[p].kind \in {"fetch", "parse", "exception"}) =>
               /\ Len(sent'[p]) = 1
               /\ IF lastOk = Null
                    THEN ~IsPayload(sent'[p][1].body)
                    ELSE /\ sent'[p][1].status = 200
                         /\ IsStale(sent'[p][1])
                         /\ Unstale(sent'[p][1].body) = lastOk
        /\ \A p \in Procs :
             (path[p] = NoPath /\ path'[p].kind = "ok") =>
               /\ sent'[p] = <<[status |-> 200, body |-> lastKnown']>>
               /\ pc[p] = "text"
  ]_vars

\* an invocation that entered with an empty cache fails and serves the payload
\* another invocation stored while it was suspended
C12_Witness ==
  \E p \in Procs : \E q \in Procs \ {p} :
    /\ variant \in PlainVariants
    /\ Done(p) /\ Failed(p) /\ coldStart[p]
    /\ IsStale(sent[p][1])
    /\ path[q].kind = "ok"
    /\ sent[q] = <<[status |-> 200, body |-> lastKnown]>>
    /\ Unstale(sent[p][1].body) = lastKnown

\* ------------------------------------------------------ handler boundary
\* C13: every invocation of every variant completes having sent exactly one
\* response, and no exception leaves the handler, a failure of browser.close()
\* included.
C13_OneResponseNoEscape ==
  \A p \in Procs : Done(p) => (Len(sent[p]) = 1 /\ ~escaped[p])
====
